---- MODULE Spec2Model ----
(***************************************************************************)
(* Recording watcher of radio_capture: the discovery scanner, the          *)
(* single-worker processing dispatcher, the retention sweeper and the      *)
(* watcher loop (app/services/watcher.py), together with the consumer      *)
(* handlers classify_file and transcribe_file (app/api/stats_routes.py)    *)
(* that call the same adapters.                                            *)
(*                                                                         *)
(* Time is in seconds.  The asyncio event loop is one cooperative thread:  *)
(* a coroutine runs from one await to the next without interruption, and   *)
(* callbacks run in the order they became ready.  The executor worker and  *)
(* the sweeper (asyncio.to_thread) are threads of their own.               *)
(***************************************************************************)
EXTENDS Integers, Sequences, FiniteSets, TLC

VARIABLES
    streams,        \* Stream table
    walk,           \* order in which os.walk lists the files
    reply,          \* history: the consumer handlers' last response
    now,            \* wall clock, seconds
    files,          \* file system: path -> [exists, mtime]
    recordings,     \* Recording table: row id = index
    running,        \* RecordingWatcher.running
    loop_pc,        \* position of RecordingWatcher.loop
    wake_at,        \* deadline of the loop's asyncio.sleep
    last_cleanup,   \* RecordingWatcher._last_cleanup
    sweep,          \* the sweeper thread: [now, todo]
    ready,          \* event loop: wake-ups of _process_recording_async tasks, FIFO
    execq,          \* ThreadPoolExecutor work queue, FIFO
    calls,          \* adapter invocations in progress (worker thread, handlers)
    jobs,           \* history: per row id, what the dispatcher did for it
    scans,          \* history: the last scan pass, and every tick of the loop
    swept,          \* history: the last sweep of one stream
    budget,         \* environment steps taken: [ticks, writes, requests]
    fmt,            \* _format_timestamp: its argument and the text it returned
    second          \* the loop task a repeated start() creates: [pc, wake_at, sweep]

vars == <<streams, walk, reply, now, files, recordings, running, loop_pc, wake_at, last_cleanup, sweep,
          ready, execq, calls, jobs, scans, swept, budget, fmt,
          second>>

(***************************************************************************)
(* Bounds of the model                                                     *)
(***************************************************************************)
MaxTicks == 1
MaxScanTicks == 2
MaxWrites == 1
MaxRequests == 1
T0 == 400000
CapExtra == 2
MaxHours == 1

(***************************************************************************)
(* Program constants                                                       *)
(***************************************************************************)
GRACE_SECONDS == 10
SCAN_INTERVAL == 60
CLEANUP_INTERVAL == 3600
DEFAULT_RETENTION_DAYS == 3
SECONDS_PER_DAY == 86400
SWEEP_LIMIT == 500
MAX_WORKERS == 1
NoTime == -1
None == "None"

(***************************************************************************)
(* Streams (read-only for the watcher)                                     *)
(***************************************************************************)
Absent == [kind |-> "absent", val |-> 0]
IntParam(n) == [kind |-> "int", val |-> n]
TextParam == [kind |-> "text", val |-> 0]

Streams ==
    <<[id |-> 1, name |-> "radio1", enabled |-> TRUE, language |-> "en",
       retention_days |-> Absent],
      [id |-> 2, name |-> "radio2", enabled |-> TRUE, language |-> "",
       retention_days |-> IntParam(0)]>>

\* Three streams that all keep their recordings for a while: by default, by
\* a number of days, and by a value that is not a number.
Archive ==
    <<[id |-> 1, name |-> "radio1", enabled |-> TRUE, language |-> "en",
       retention_days |-> Absent],
      [id |-> 2, name |-> "radio2", enabled |-> TRUE, language |-> "",
       retention_days |-> IntParam(7)],
      [id |-> 3, name |-> "radio3", enabled |-> TRUE, language |-> "en",
       retention_days |-> TextParam]>>

\* The same table with a third stream whose retention_days is negative.
Fleet ==
    Append(Streams, [id |-> 3, name |-> "radio3", enabled |-> TRUE, language |-> "en",
                     retention_days |-> IntParam(-1)])

(***************************************************************************)
(* The files the external recorder may write.  A file name is the list of  *)
(* its "_"-separated tokens before the extension; a token is either text   *)
(* or a 14-digit timestamp, held as the instant it denotes.                *)
(***************************************************************************)
Txt(s) == [kind |-> "text", val |-> 0, text |-> s]
Stamp(t) == [kind |-> "stamp", val |-> t, text |-> ""]
\* A digit string shorter than 14 that strptime still matches against
\* "%Y%m%d%H%M%S" (its fields take one digit where two do not fit).
Digits(t) == [kind |-> "digits", val |-> t, text |-> ""]

\* What running ffprobe on a file does: subprocess.run raises (tool missing),
\* or never returns, or returns an exit code and an output that is a number
\* or is not.
Probe(raises, hangs, returncode, numeric, val) ==
    [raises |-> raises, hangs |-> hangs, returncode |-> returncode, numeric |-> numeric,
     val |-> val]
ProbeOk(val) == Probe(FALSE, FALSE, 0, TRUE, val)
ProbeExit(code) == Probe(FALSE, FALSE, code, FALSE, 0)
ProbeToolMissing == Probe(TRUE, FALSE, 0, FALSE, 0)
ProbeGarbage == Probe(FALSE, FALSE, 0, FALSE, 0)
ProbeHangs == Probe(FALSE, TRUE, 0, FALSE, 0)

File(dir, tokens, ext, size, probe) ==
    [dir |-> dir, tokens |-> tokens, ext |-> ext, size |-> size, probe |-> probe]

Catalogue ==
    [p \in {"radio1/a", "radio1/b", "radio1/segment", "radio1/take_one", "radio1/slow",
            "radio1/e", "radio1/my_show", "radio1/chunk_x", "radio1/short",
            "radio2/c", "radio2/f", "radio3/d"} |->
        CASE p = "radio1/a" ->
                File("radio1", <<Txt("chunk"), Stamp(T0 - 4 * SECONDS_PER_DAY)>>, ".mp3",
                     1000, ProbeOk(15))
          [] p = "radio1/b" ->
                File("radio1",
                     <<Txt("chunk"), Stamp(T0 + CLEANUP_INTERVAL - 3 * SECONDS_PER_DAY)>>,
                     ".wav", 2000, ProbeExit(1))
          [] p = "radio1/segment" ->
                File("radio1", <<Txt("segment")>>, ".mp3", 3000, ProbeOk(7))
          [] p = "radio1/take_one" ->
                File("radio1", <<Txt("take"), Txt("one")>>, ".wav", 4000, ProbeOk(9))
          [] p = "radio1/slow" ->
                File("radio1", <<Txt("chunk"), Stamp(T0 - SECONDS_PER_DAY)>>, ".mp3",
                     5000, ProbeHangs)
          [] p = "radio1/e" ->
                File("radio1", <<Txt("chunk"), Stamp(T0 - 5 * SECONDS_PER_DAY)>>, ".mp3",
                     8000, ProbeOk(20))
          [] p = "radio1/my_show" ->
                File("radio1", <<Txt("my"), Txt("show"), Stamp(T0 - SECONDS_PER_DAY)>>,
                     ".mp3", 9000, ProbeOk(30))
          [] p = "radio1/chunk_x" ->
                File("radio1", <<Txt("chunk"), Stamp(T0 - 2 * SECONDS_PER_DAY), Txt("x")>>,
                     ".wav", 10000, ProbeOk(12))
          [] p = "radio1/short" ->
                File("radio1", <<Txt("chunk"), Digits(T0 - 2 * SECONDS_PER_DAY)>>, ".mp3",
                     11000, ProbeOk(11))
          [] p = "radio2/c" ->
                File("radio2", <<Txt("chunk"), Stamp(T0 - 30 * SECONDS_PER_DAY)>>, ".mp3",
                     6000, ProbeToolMissing)
          [] p = "radio2/f" ->
                File("radio2", <<Txt("chunk"), Stamp(T0 - SECONDS_PER_DAY)>>, ".mp3",
                     12000, ProbeOk(5))
          [] p = "radio3/d" ->
                File("radio3", <<Txt("chunk"), Stamp(T0 - 30 * SECONDS_PER_DAY)>>, ".wav",
                     7000, ProbeGarbage)]

Paths == DOMAIN Catalogue

WalkOrder ==
    <<"radio1/a", "radio1/b", "radio1/segment", "radio1/take_one", "radio1/slow",
      "radio1/e", "radio1/my_show", "radio1/chunk_x", "radio1/short",
      "radio2/c", "radio2/f", "radio3/d">>

TickSteps == {SCAN_INTERVAL, CLEANUP_INTERVAL}

Classes == {"speech", "music", "ad"}
ModelSizes == {"tiny", "small"}

Ids == 1..Len(recordings)

SeqToSet(s) == {s[k] : k \in 1..Len(s)}


(***************************************************************************)
(* Recording rows and the adapters' results                                *)
(***************************************************************************)
\* Mutant of NewRecording: the row starts in the recorder's status, already
\* classified.
NewRecordingClassified(stream_id, path, start_ts, size, duration) ==
    [stream_id |-> stream_id, path |-> path, start_ts |-> start_ts,
     size_bytes |-> size, duration_seconds |-> duration, status |-> "recording",
     classification |-> "speech", transcript |-> None, transcript_json |-> None,
     asr_model |-> None, asr_confidence |-> NoTime, asr_ts |-> NoTime]

NewRecording(stream_id, path, start_ts, size, duration) ==
    [stream_id |-> stream_id, path |-> path, start_ts |-> start_ts,
     size_bytes |-> size, duration_seconds |-> duration, status |-> "completed",
     classification |-> None, transcript |-> None, transcript_json |-> None,
     asr_model |-> None, asr_confidence |-> NoTime, asr_ts |-> NoTime]

ModelId(model) == IF model = "tiny" THEN "whisper-tiny" ELSE "whisper-small"

TranscribeResult(path, model, language) ==
    [transcript |-> "text", segments |-> "segments", model |-> ModelId(model),
     confidence |-> 85, language |-> language]

NewJob ==
    [submitted |-> 0, cls_calls |-> 0, asr_calls |-> 0, cls_res |-> None,
     asr_res |-> None, wrote |-> FALSE, done |-> FALSE]

(***************************************************************************)
(* Discovery scanner: scan_files                                           *)
(***************************************************************************)
AcceptedExt(p) == Catalogue[p].ext \in {".wav", ".mp3"}

\* Mutants of ExistingRow: a lookup that never matches, and one whose status
\* filter is inverted.
ExistingRowNever(recs, p) == FALSE

ExistingRowInverted(recs, p) ==
    \E i \in 1..Len(recs) : recs[i].path = p /\ recs[i].status = "deleted"

ExistingRow(recs, p) ==
    \E i \in 1..Len(recs) : recs[i].path = p /\ recs[i].status # "deleted"

\* Mutant of BeingWritten: the comparison inverted.
BeingWrittenInverted(t, mtime) == t - mtime > GRACE_SECONDS

BeingWritten(t, mtime) == t - mtime < GRACE_SECONDS

\* The result of an operation that raised.
Raised == -1

\* Mutant of GetDuration: a failed probe raises to the caller.
GetDurationRaises(p) ==
    LET result == Catalogue[p].probe
    IN  IF ~result.raises /\ result.returncode = 0 /\ result.numeric
        THEN result.val ELSE Raised

GetDuration(p) ==
    LET result == Catalogue[p].probe
    IN  IF result.raises THEN 0
        ELSE IF result.returncode = 0
             THEN IF result.numeric THEN result.val ELSE 0
             ELSE 0

\* Mutant of ParseOk: the second token is not checked to be a timestamp.
ParseOkLenient(tokens) == Len(tokens) >= 2

ParseOk(tokens) == Len(tokens) >= 2 /\ tokens[2].kind \in {"stamp", "digits"}

ParseStartTs(tokens) == tokens[2].val

StreamLanguage(stream) == IF stream.language # "" THEN stream.language ELSE "he"

\* Mutant of Submit: the task is scheduled twice.
SubmitTwice(acc, id, lang) ==
    LET e == [rec |-> id, ev |-> "start", res |-> None, lang |-> lang]
    IN  [acc EXCEPT !.rdy = Append(Append(@, e), e), !.jobs[id].submitted = @ + 2]

Submit(acc, id, lang) ==
    [acc EXCEPT !.rdy = Append(@, [rec |-> id, ev |-> "start", res |-> None, lang |-> lang]),
                !.jobs[id].submitted = @ + 1]

Insert(acc, stream, p) ==
    LET rec == NewRecording(stream.id, p, ParseStartTs(Catalogue[p].tokens),
                            Catalogue[p].size, GetDuration(p))
        id == Len(acc.recs) + 1
        added == [acc EXCEPT !.recs = Append(@, rec), !.jobs = Append(@, NewJob),
                             !.created = @ \cup {p}]
    IN  Submit(added, id, StreamLanguage(stream))

\* One file of the walk.  A probe that never returns leaves the pass, and the
\* event loop thread with it, inside subprocess.run; an exception anywhere
\* between the stat and the create_task skips the file.
ScanFile(acc, stream, p, fs, t) ==
    IF acc.hung THEN acc
    ELSE IF ~AcceptedExt(p) THEN acc
    ELSE IF ExistingRow(acc.recs, p) THEN acc
    ELSE IF BeingWritten(t, fs[p].mtime) THEN [acc EXCEPT !.graced = @ \cup {p}]
    ELSE LET probed == [acc EXCEPT !.probed = @ \cup {p}]
         IN  IF Catalogue[p].probe.hangs THEN [probed EXCEPT !.hung = TRUE]
             ELSE IF GetDuration(p) = Raised THEN probed
             ELSE IF ~ParseOk(Catalogue[p].tokens)
             THEN [probed EXCEPT !.unparsed = @ \cup {p}]
             ELSE Insert(probed, stream, p)

\* (Here and below a one-element set, as in {f(x) : x \in {e}}, gives the
\* value of e a name and has it computed once.)
RECURSIVE ScanDir(_, _, _, _, _)
ScanDir(acc, stream, todo, fs, t) ==
    IF todo = <<>> THEN acc
    ELSE LET p == Head(todo)
         IN  CHOOSE r \in {ScanDir(next, stream, Tail(todo), fs, t) :
                              next \in {IF /\ p \in DOMAIN fs
                                           /\ Catalogue[p].dir = stream.name
                                           /\ fs[p].exists
                                        THEN ScanFile(acc, stream, p, fs, t)
                                        ELSE acc}} : TRUE

\* Mutant of Scanned: the enabled flag is not looked at.
ScannedAlways(stream) == TRUE

\* The streams whose directory a pass walks.
Scanned(stream) == stream.enabled

RECURSIVE ScanStreams(_, _, _, _)
ScanStreams(acc, todo, fs, t) ==
    IF todo = <<>> THEN acc
    ELSE LET stream == Head(todo)
         IN  CHOOSE r \in {ScanStreams(next, Tail(todo), fs, t) :
                              next \in {IF Scanned(stream)
                                        THEN ScanDir(acc, stream, walk, fs, t)
                                        ELSE acc}} : TRUE

ScanFiles(recs, rdy, jbs, fs, t) ==
    ScanStreams([recs |-> recs, rdy |-> rdy, jobs |-> jbs, created |-> {}, graced |-> {},
                 probed |-> {}, unparsed |-> {},
                 hung |-> FALSE], streams, fs, t)

(***************************************************************************)
(* Retention sweeper: cleanup_old_recordings                               *)
(***************************************************************************)
\* Mutant of ResolveRetentionDays: a non-positive value is not turned into 0.
ResolveRetentionNoDisable(stream) ==
    LET raw == stream.retention_days
    IN  IF raw.kind = "int" THEN raw.val ELSE DEFAULT_RETENTION_DAYS

ResolveRetentionDays(stream) ==
    LET raw == stream.retention_days
    IN  IF raw.kind = "absent" THEN DEFAULT_RETENTION_DAYS
        ELSE IF raw.kind = "text" THEN DEFAULT_RETENTION_DAYS
        ELSE IF raw.val <= 0 THEN 0
        ELSE raw.val

Cutoff(utc_now, retention_days) == utc_now - retention_days * SECONDS_PER_DAY

\* Mutant of Limit: no cap.
LimitOff(s, n) == s

\* Mutant of Expired: the cutoff itself counts as expired.
ExpiredInclusive(rec, stream, cutoff) ==
    rec.stream_id = stream.id /\ rec.start_ts <= cutoff /\ rec.status # "deleted"

Expired(rec, stream, cutoff) ==
    rec.stream_id = stream.id /\ rec.start_ts < cutoff /\ rec.status # "deleted"

\* The ids in ascending start_ts (rows of equal start_ts in ascending id).
OrderByStartTs(recs, ids) ==
    LET Before(i, j) == \/ recs[i].start_ts < recs[j].start_ts
                        \/ (recs[i].start_ts = recs[j].start_ts /\ i < j)
    IN  CHOOSE r \in {SortSeq(SelectSeq([i \in 1..Len(recs) |-> i], LAMBDA i : i \in chosen),
                               Before) : chosen \in {ids}} : TRUE

Limit(s, n) ==
    CHOOSE r \in {IF Len(rows) <= n THEN rows ELSE SubSeq(rows, 1, n) : rows \in {s}} : TRUE

OldRecordings(recs, stream, cutoff) ==
    Limit(OrderByStartTs(recs, {i \in 1..Len(recs) : Expired(recs[i], stream, cutoff)}),
          SWEEP_LIMIT)

SweepOutcomes == {"ok", "unlink_fails", "commit_fails"}

DeleteOne(acc, id, outcome) ==
    LET p == acc.recs[id].path
        present == acc.fs[p].exists
    IN  IF present /\ outcome = "unlink_fails" THEN acc
        ELSE LET removed == IF present
                            THEN [acc EXCEPT !.fs[p] = [exists |-> FALSE, mtime |-> 0]]
                            ELSE acc
             IN  IF outcome = "commit_fails" THEN removed
                 ELSE [removed EXCEPT !.recs[id].status = "deleted"]

\* Mutant of DeleteAll: the first failure ends the loop.
RECURSIVE DeleteAllAborting(_, _, _)
DeleteAllAborting(acc, todo, outcome) ==
    IF todo = <<>> THEN acc
    ELSE IF outcome[Head(todo)] # "ok"
    THEN DeleteOne(acc, Head(todo), outcome[Head(todo)])
    ELSE DeleteAllAborting(DeleteOne(acc, Head(todo), "ok"), Tail(todo), outcome)

\* The loop over old_recordings, in order: the first half, then, from the
\* state the first half has left, the rest.
RECURSIVE DeleteAll(_, _, _)
DeleteAll(acc, todo, outcome) ==
    IF todo = <<>> THEN acc
    ELSE IF Len(todo) = 1 THEN DeleteOne(acc, todo[1], outcome[todo[1]])
    ELSE LET half == Len(todo) \div 2
         IN  CHOOSE r \in {DeleteAll(done, rest, outcome) :
                              done \in {DeleteAll(acc, SubSeq(todo, 1, half), outcome)},
                              rest \in {SubSeq(todo, half + 1, Len(todo))}} : TRUE

(***************************************************************************)
(* Initial state: the watcher constructed, not started; the recorder has   *)
(* left one finished segment and is still writing another.                 *)
(***************************************************************************)
NoFile == [exists |-> FALSE, mtime |-> 0]
NoSweep == [stream |-> 0, cutoff |-> NoTime, cands |-> <<>>, outcome |-> <<>>]
NoScans ==
    [count |-> 0, graced |-> {}, probed |-> {}, unparsed |-> {}, dirty |-> FALSE,
     repeat |-> FALSE, ticks |-> <<>>]

NoReply == [rec |-> 0, fn |-> None, cached |-> FALSE, status |-> None]

\* start() not called a second time: no second loop task.
NoSecond == [pc |-> "none", wake_at |-> NoTime, sweep |-> [now |-> NoTime, todo |-> <<>>]]

\* _format_timestamp not called: no argument, no text.
NoFormat == [ms |-> 0, tie_up |-> FALSE, text |-> <<>>]

Init ==
    /\ streams = Streams
    /\ walk = WalkOrder
    /\ reply = NoReply
    /\ now = T0
    /\ files = [p \in {"radio1/a", "radio1/b"} |->
                   CASE p = "radio1/a" -> [exists |-> TRUE, mtime |-> T0 - GRACE_SECONDS]
                     [] p = "radio1/b" -> [exists |-> TRUE, mtime |-> T0 - 5]]
    /\ recordings = <<>>
    /\ running = FALSE
    /\ loop_pc = "stopped"
    /\ wake_at = NoTime
    /\ last_cleanup = NoTime
    /\ sweep = [now |-> NoTime, todo |-> <<>>]
    /\ ready = <<>>
    /\ execq = <<>>
    /\ calls = {}
    /\ jobs = <<>>
    /\ scans = NoScans
    /\ swept = NoSweep
    /\ budget = [ticks |-> 0, writes |-> 0, requests |-> 0]
    /\ fmt = NoFormat
    /\ second = NoSecond

(***************************************************************************)
(* The event loop thread is busy while a consumer handler runs an adapter  *)
(* call on it: classify_file and transcribe_file are coroutines that call  *)
(* the adapters directly.                                                  *)
(***************************************************************************)
WorkerCalls == {c \in calls : c.by = "worker"}
HandlerCalls == {c \in calls : c.by = "handler"}
\* Mutant of LoopFree: the loop thread also waits for the worker's call.
LoopFreeIdle == calls = {} /\ loop_pc # "hung"

LoopFree == HandlerCalls = {} /\ loop_pc # "hung"

(***************************************************************************)
(* Watcher loop: start, loop, maybe_cleanup_old_recordings                 *)
(***************************************************************************)
Start ==
    /\ loop_pc = "stopped"
    /\ running' = TRUE
    /\ loop_pc' = "sleeping"
    /\ wake_at' = now
    /\ UNCHANGED <<second, fmt, streams, walk, reply, now, files, recordings, last_cleanup, sweep, ready, execq, calls,
                   jobs, scans, swept, budget>>

\* Mutant of Throttled: the interval is compared the wrong way round.
ThrottledInverted(t, last) == last # NoTime /\ t - last > CLEANUP_INTERVAL

\* Mutant of SweepAwaited: the sweeper's thread is started and not awaited.
SweepDetached == "sleeping"

\* Where the loop is while it awaits asyncio.to_thread(cleanup_old_recordings).
SweepAwaited == "sweeping"

TickRecord(at, scan, swp) == [at |-> at, scan |-> scan, sweep |-> swp]

Throttled(t, last) == last # NoTime /\ t - last < CLEANUP_INTERVAL

LoopTick ==
    /\ loop_pc = "sleeping"
    /\ running
    /\ now >= wake_at
    /\ LoopFree
    /\ LET r == ScanFiles(recordings, ready, jobs, files, now)
       IN  /\ recordings' = r.recs
           /\ ready' = r.rdy
           /\ jobs' = r.jobs
           /\ scans' = [count |-> scans.count + 1, graced |-> r.graced,
                        probed |-> r.probed, unparsed |-> r.unparsed, dirty |-> FALSE,
                        repeat |-> scans.count >= 1 /\ ~scans.dirty,
                        ticks |-> Append(scans.ticks,
                                     TickRecord(now, "ok",
                                                IF r.hung \/ Throttled(now, last_cleanup)
                                                THEN "none" ELSE "running"))]
           /\ IF r.hung
              THEN /\ loop_pc' = "hung"
                   /\ UNCHANGED <<wake_at, sweep>>
              ELSE IF Throttled(now, last_cleanup)
              THEN /\ wake_at' = now + SCAN_INTERVAL
                   /\ UNCHANGED <<loop_pc, sweep>>
              ELSE /\ loop_pc' = SweepAwaited
                   /\ sweep' = [now |-> now, todo |-> streams]
                   /\ UNCHANGED wake_at
    /\ UNCHANGED <<second, fmt, streams, walk, reply, now, files, running, last_cleanup, execq, calls, swept, budget>>

\* cleanup_old_recordings for the next stream, where each unlink and commit
\* ends in one of the given outcomes.
Sweep(outcomes) ==
    /\ loop_pc = "sweeping"
    /\ sweep.todo # <<>>
    /\ LET stream == Head(sweep.todo)
           days == ResolveRetentionDays(stream)
           cutoff == Cutoff(sweep.now, days)
           cands == IF days = 0 THEN <<>> ELSE OldRecordings(recordings, stream, cutoff)
       IN  \E outcome \in [SeqToSet(cands) -> outcomes] :
              /\ {i \in SeqToSet(cands) : /\ outcome[i] = "unlink_fails"
                                           /\ ~files[recordings[i].path].exists} = {}
              /\ LET r == DeleteAll([recs |-> recordings, fs |-> files], cands, outcome)
                 IN  /\ recordings' = r.recs
                     /\ files' = r.fs
                     /\ swept' = [stream |-> stream.id, cutoff |-> cutoff, cands |-> cands,
                                  outcome |-> [i \in 1..Len(cands) |-> outcome[cands[i]]]]
    /\ sweep' = [sweep EXCEPT !.todo = Tail(@)]
    /\ scans' = [scans EXCEPT !.dirty = TRUE]
    /\ UNCHANGED <<second, fmt, streams, walk, reply, now, running, loop_pc, wake_at, last_cleanup,
                   ready, execq, calls, jobs, budget>>

SweepStream == Sweep(SweepOutcomes)

\* The same with a disk and a database that do not fail.
SweepStreamClean == Sweep({"ok"})

SweepDone ==
    /\ loop_pc = "sweeping"
    /\ sweep.todo = <<>>
    /\ LoopFree
    /\ last_cleanup' = sweep.now
    /\ loop_pc' = "sleeping"
    /\ wake_at' = now + SCAN_INTERVAL
    /\ sweep' = [now |-> NoTime, todo |-> <<>>]
    /\ swept' = NoSweep
    /\ scans' = [scans EXCEPT !.ticks[Len(scans.ticks)].sweep = "completed"]
    /\ UNCHANGED <<second, fmt, streams, walk, reply, now, files, recordings, running, ready, execq,
                   calls, jobs, budget>>

\* start() called on a watcher that is running: running is set again and
\* another task running loop() is created.
StartAgain ==
    /\ running
    /\ second.pc = "none"
    /\ running' = TRUE
    /\ second' = [second EXCEPT !.pc = "sleeping", !.wake_at = now]
    /\ UNCHANGED <<fmt, streams, walk, reply, now, files, recordings, loop_pc, wake_at,
                   last_cleanup, sweep, ready, execq, calls, jobs, scans, swept, budget>>

\* One iteration of the second task's loop: the same scan_files and the same
\* maybe_cleanup_old_recordings, on the same watcher object.
SecondTick ==
    /\ second.pc = "sleeping"
    /\ running
    /\ now >= second.wake_at
    /\ LoopFree
    /\ LET r == ScanFiles(recordings, ready, jobs, files, now)
       IN  /\ recordings' = r.recs
           /\ ready' = r.rdy
           /\ jobs' = r.jobs
           /\ IF r.hung
              THEN second' = [second EXCEPT !.pc = "hung"]
              ELSE IF Throttled(now, last_cleanup)
              THEN second' = [second EXCEPT !.wake_at = now + SCAN_INTERVAL]
              ELSE second' = [second EXCEPT !.pc = SweepAwaited,
                                            !.sweep = [now |-> now, todo |-> streams]]
    /\ scans' = [scans EXCEPT !.dirty = TRUE]
    /\ UNCHANGED <<fmt, streams, walk, reply, now, files, running, loop_pc, wake_at,
                   last_cleanup, sweep, execq, calls, swept, budget>>

\* cleanup_old_recordings in the second task's thread, for its next stream.
SecondSweep ==
    /\ second.pc = "sweeping"
    /\ second.sweep.todo # <<>>
    /\ LET stream == Head(second.sweep.todo)
           days == ResolveRetentionDays(stream)
           cutoff == Cutoff(second.sweep.now, days)
           cands == IF days = 0 THEN <<>> ELSE OldRecordings(recordings, stream, cutoff)
           r == DeleteAll([recs |-> recordings, fs |-> files], cands,
                          [i \in SeqToSet(cands) |-> "ok"])
       IN  /\ recordings' = r.recs
           /\ files' = r.fs
    /\ second' = [second EXCEPT !.sweep.todo = Tail(@)]
    /\ scans' = [scans EXCEPT !.dirty = TRUE]
    /\ UNCHANGED <<fmt, streams, walk, reply, now, running, loop_pc, wake_at, last_cleanup,
                   sweep, ready, execq, calls, jobs, swept, budget>>

SecondSweepDone ==
    /\ second.pc = "sweeping"
    /\ second.sweep.todo = <<>>
    /\ LoopFree
    /\ last_cleanup' = second.sweep.now
    /\ second' = [pc |-> "sleeping", wake_at |-> now + SCAN_INTERVAL,
                  sweep |-> [now |-> NoTime, todo |-> <<>>]]
    /\ UNCHANGED <<fmt, streams, walk, reply, now, files, recordings, running, loop_pc,
                   wake_at, sweep, ready, execq, calls, jobs, scans, swept, budget>>

\* The exceptions scan_files and cleanup_old_recordings can raise (database
\* and file system errors) and the ones the loop's except clause catches.
Raisable == {"Exception"}

\* Mutant of Caught: the except clause catches nothing.
CaughtNothing(exc) == FALSE

Caught(exc) == exc \in {"Exception"}

AfterError(exc) == IF Caught(exc) THEN "sleeping" ELSE "dead"

\* A tick whose scan_files raises before it has inserted anything: the
\* sweeper is not reached.
ScanFails ==
    \E exc \in Raisable :
        /\ loop_pc = "sleeping"
        /\ running
        /\ now >= wake_at
        /\ LoopFree
        /\ loop_pc' = AfterError(exc)
        /\ wake_at' = now + SCAN_INTERVAL
        /\ scans' = [scans EXCEPT !.ticks = Append(@, TickRecord(now, "raised", "none"))]
        /\ UNCHANGED <<second, fmt, streams, walk, reply, now, files, recordings, running, last_cleanup,
                       sweep, ready, execq, calls, jobs, swept, budget>>

\* cleanup_old_recordings raises out of its thread: _last_cleanup is not set.
SweepFails ==
    \E exc \in Raisable :
        /\ loop_pc = "sweeping"
        /\ LoopFree
        /\ loop_pc' = AfterError(exc)
        /\ wake_at' = now + SCAN_INTERVAL
        /\ sweep' = [now |-> NoTime, todo |-> <<>>]
        /\ swept' = NoSweep
        /\ scans' = [scans EXCEPT !.ticks[Len(scans.ticks)].sweep = "raised"]
        /\ UNCHANGED <<second, fmt, streams, walk, reply, now, files, recordings, running, last_cleanup,
                       ready, execq, calls, jobs, budget>>

(***************************************************************************)
(* Processing dispatcher: _process_recording_async on the executor         *)
(***************************************************************************)
FIXED_MODEL_SIZE == "tiny"

Event(id, ev, res, lang) == [rec |-> id, ev |-> ev, res |-> res, lang |-> lang]

Work(fn, id, lang) == [fn |-> fn, rec |-> id, lang |-> lang]

\* An adapter call in progress, with the time at which it was entered.
Call(by, fn, id, model, lang, found) ==
    [by |-> by, fn |-> fn, rec |-> id, model |-> model, lang |-> lang, found |-> found,
     since |-> now]

\* Mutant of ShouldTranscribe: everything but music is transcribed.
ShouldTranscribeNotMusic(classification) == classification # "music"

ShouldTranscribe(classification) == classification = "speech"

\* Mutant of CommitClassification: the update writes the status back as well.
CommitClassificationRevives(rec, classification) ==
    [rec EXCEPT !.classification = classification, !.status = "completed"]

\* Mutant of CommitClassification: the value is not written before the
\* transcription is requested.
CommitClassificationLost(rec, classification) == rec

CommitClassification(rec, classification) ==
    [rec EXCEPT !.classification = classification]

\* Mutant of CommitTranscript: the timestamp is left out of the update.
CommitTranscriptNoTs(rec, result, t) ==
    [rec EXCEPT !.transcript = result.transcript,
                !.transcript_json = result.segments,
                !.asr_model = result.model,
                !.asr_confidence = result.confidence]

CommitTranscript(rec, result, t) ==
    [rec EXCEPT !.transcript = result.transcript,
                !.transcript_json = result.segments,
                !.asr_model = result.model,
                !.asr_confidence = result.confidence,
                !.asr_ts = t]

\* Mutant of WorkerFree: the pool's thread never takes work.
WorkerFreeNever == FALSE

\* Mutant of WorkerFree: a pool of two workers.
WorkerFreeTwo == Cardinality(WorkerCalls) < MAX_WORKERS + 1

WorkerFree == Cardinality(WorkerCalls) < MAX_WORKERS

\* Mutant of Failed: the except branch of the job is never taken.
FailedNever(res) == FALSE

\* The awaited adapter call raised: control leaves the try block.
Failed(res) == res = "error"

\* The task's first step, and its resumption after each run_in_executor.
TaskStep ==
    /\ ready # <<>>
    /\ LoopFree
    /\ LET e == Head(ready)
           id == e.rec
       IN  /\ ready' = Tail(ready)
           /\ CASE e.ev = "start" ->
                     /\ execq' = Append(execq, Work("classify", id, e.lang))
                     /\ UNCHANGED <<recordings, jobs>>
                [] e.ev = "classified" /\ Failed(e.res) ->
                     /\ jobs' = [jobs EXCEPT ![id].done = TRUE]
                     /\ UNCHANGED <<recordings, execq>>
                [] e.ev = "classified" /\ ~Failed(e.res) ->
                     /\ recordings' = [recordings EXCEPT
                                          ![id] = CommitClassification(@, e.res)]
                     /\ IF ShouldTranscribe(e.res)
                        THEN /\ execq' = Append(execq, Work("transcribe", id, e.lang))
                             /\ UNCHANGED jobs
                        ELSE /\ jobs' = [jobs EXCEPT ![id].done = TRUE]
                             /\ UNCHANGED execq
                [] e.ev = "transcribed" /\ Failed(e.res) ->
                     /\ jobs' = [jobs EXCEPT ![id].done = TRUE]
                     /\ UNCHANGED <<recordings, execq>>
                [] e.ev = "transcribed" /\ ~Failed(e.res) ->
                     /\ recordings' = [recordings EXCEPT
                           ![id] = CommitTranscript(@,
                                       TranscribeResult(@.path, FIXED_MODEL_SIZE, e.lang), now)]
                     /\ jobs' = [jobs EXCEPT ![id].done = TRUE, ![id].wrote = TRUE]
                     /\ UNCHANGED execq
    /\ UNCHANGED <<second, fmt, streams, walk, reply, now, files, running, loop_pc, wake_at, last_cleanup, sweep, calls,
                   scans, swept, budget>>

\* The worker thread takes the next work item and enters the adapter.
WorkerStart ==
    /\ execq # <<>>
    /\ WorkerFree
    /\ LET w == Head(execq)
       IN  /\ calls' = calls \cup {Call("worker", w.fn, w.rec, FIXED_MODEL_SIZE, w.lang,
                                        files[recordings[w.rec].path].exists)}
           /\ jobs' = IF w.fn = "classify"
                      THEN [jobs EXCEPT ![w.rec].cls_calls = @ + 1]
                      ELSE [jobs EXCEPT ![w.rec].asr_calls = @ + 1]
    /\ execq' = Tail(execq)
    /\ UNCHANGED <<second, fmt, streams, walk, reply, now, files, recordings, running, loop_pc, wake_at, last_cleanup, sweep,
                   ready, scans, swept, budget>>

\* classify_audio and transcribe raise when the file is missing or the model
\* fails; otherwise they return.
Results(c) ==
    IF ~c.found THEN {"error"}
    ELSE IF c.fn = "classify" THEN Classes \cup {"error"}
    ELSE {"ok", "error"}

WorkerFinish ==
    \E c \in WorkerCalls : \E res \in Results(c) :
        /\ calls' = calls \ {c}
        /\ ready' = Append(ready, Event(c.rec, IF c.fn = "classify" THEN "classified"
                                                ELSE "transcribed", res, c.lang))
        /\ jobs' = IF c.fn = "classify"
                   THEN [jobs EXCEPT ![c.rec].cls_res = res]
                   ELSE [jobs EXCEPT ![c.rec].asr_res = res]
        /\ UNCHANGED <<second, fmt, streams, walk, reply, now, files, recordings, running, loop_pc, wake_at, last_cleanup,
                       sweep, execq, scans, swept, budget>>

(***************************************************************************)
(* Transcription adapter: _format_timestamp.  The argument is held in      *)
(* whole milliseconds, the text as the sequence of its characters.         *)
(***************************************************************************)
Digit(n) == <<"0", "1", "2", "3", "4", "5", "6", "7", "8", "9">>[n + 1]

\* The decimal digits of a natural number, as "d" formats them.
RECURSIVE Decimal(_)
Decimal(n) == IF n < 10 THEN <<Digit(n)>> ELSE Decimal(n \div 10) \o <<Digit(n % 10)>>

\* The "0" flag with a minimum width: zeros on the left up to the width.
ZeroFill(s, width) ==
    IF Len(s) >= width THEN s ELSE [i \in 1..(width - Len(s)) |-> "0"] \o s

\* Rounding to two decimals, here to hundredths of a second.  A value half
\* way between two hundredths goes where its binary representation lies,
\* above or below the half.
Centis(ms, tie_up) ==
    LET q == ms \div 10
        r == ms % 10
    IN  IF r > 5 \/ (r = 5 /\ tie_up) THEN q + 1 ELSE q

\* The ".2f" presentation of a number of hundredths.
Fixed2(cs) == Decimal(cs \div 100) \o <<".">> \o ZeroFill(Decimal(cs % 100), 2)

\* The minimum width in the format "06.2f" of the seconds.
SecondsWidth == 6

FormatTimestamp(ms, tie_up) ==
    LET hours == ms \div 3600000
        minutes == (ms % 3600000) \div 60000
        secs == ms % 60000
    IN  ZeroFill(Decimal(hours), 2) \o <<":">> \o ZeroFill(Decimal(minutes), 2) \o <<":">>
            \o ZeroFill(Fixed2(Centis(secs, tie_up)), SecondsWidth)

\* One call of _format_timestamp on the argument drawn at the start.
Format ==
    /\ fmt.text = <<>>
    /\ fmt' = [fmt EXCEPT !.text = FormatTimestamp(fmt.ms, fmt.tie_up)]
    /\ UNCHANGED <<second, streams, walk, reply, now, files, recordings, running, loop_pc,
                   wake_at, last_cleanup, sweep, ready, execq, calls, jobs, scans, swept,
                   budget>>

(***************************************************************************)
(* Consumer handlers: classify_file and transcribe_file                    *)
(***************************************************************************)
StreamById(id) == CHOOSE st \in SeqToSet(streams) : st.id = id

Cached(rec, model) == rec.asr_ts # NoTime /\ rec.asr_model = ModelId(model)

Reply(id, fn, cached, status) == [rec |-> id, fn |-> fn, cached |-> cached, status |-> status]

\* classify_file up to the adapter call: 404 when the file is missing.
ClassifyFileBegin ==
    \E id \in Ids :
        /\ LoopFree
        /\ budget.requests < MaxRequests
        /\ IF ~files[recordings[id].path].exists
           THEN /\ reply' = Reply(id, "classify", FALSE, "404")
                /\ UNCHANGED calls
           ELSE /\ reply' = Reply(id, "classify", FALSE, "pending")
                /\ calls' = calls \cup
                       {Call("handler", "classify", id, FIXED_MODEL_SIZE, "", TRUE)}
        /\ budget' = [budget EXCEPT !.requests = @ + 1]
        /\ UNCHANGED <<second, fmt, streams, walk, now, files, recordings, running, loop_pc, wake_at,
                       last_cleanup, sweep, ready, execq, jobs, scans, swept>>

ClassifyFileEnd ==
    \E c \in HandlerCalls : \E res \in Results(c) :
        /\ c.fn = "classify"
        /\ calls' = calls \ {c}
        /\ recordings' = IF res = "error" THEN recordings
                         ELSE [recordings EXCEPT ![c.rec] = CommitClassification(@, res)]
        /\ reply' = [reply EXCEPT !.status = IF res = "error" THEN "500" ELSE "200"]
        /\ UNCHANGED <<second, fmt, streams, walk, now, files, running, loop_pc, wake_at, last_cleanup,
                       sweep, ready, execq, jobs, scans, swept, budget>>

\* transcribe_file up to the adapter call: 404 when the file is missing, then
\* the cache check, then the call.
TranscribeFileBegin ==
    \E id \in Ids : \E model \in ModelSizes :
        /\ LoopFree
        /\ budget.requests < MaxRequests
        /\ LET hit == Cached(recordings[id], model)
           IN  IF ~files[recordings[id].path].exists
               THEN /\ reply' = Reply(id, "transcribe", hit, "404")
                    /\ UNCHANGED calls
               ELSE IF hit
               THEN /\ reply' = Reply(id, "transcribe", hit, "cached")
                    /\ UNCHANGED calls
               ELSE /\ reply' = Reply(id, "transcribe", hit, "pending")
                    /\ calls' = calls \cup
                          {Call("handler", "transcribe", id, model,
                                StreamById(recordings[id].stream_id).language, TRUE)}
        /\ budget' = [budget EXCEPT !.requests = @ + 1]
        /\ UNCHANGED <<second, fmt, streams, walk, now, files, recordings, running, loop_pc, wake_at,
                       last_cleanup, sweep, ready, execq, jobs, scans, swept>>

TranscribeFileEnd ==
    \E c \in HandlerCalls : \E res \in Results(c) :
        /\ c.fn = "transcribe"
        /\ calls' = calls \ {c}
        /\ recordings' = IF res = "error" THEN recordings
                         ELSE [recordings EXCEPT
                                  ![c.rec] = CommitTranscript(@,
                                      TranscribeResult(@.path, c.model, c.lang), now)]
        /\ reply' = [reply EXCEPT !.status = IF res = "error" THEN "500" ELSE "200"]
        /\ UNCHANGED <<second, fmt, streams, walk, now, files, running, loop_pc, wake_at, last_cleanup,
                       sweep, ready, execq, jobs, scans, swept, budget>>

(***************************************************************************)
(* Environment: the clock and the external recorder                        *)
(***************************************************************************)
\* start_stream_endpoint and stop_stream_endpoint: the stream's enabled flag
\* is set and committed; an unknown id is answered 404.
SetEnabled(id, value) ==
    /\ budget.requests < MaxRequests
    /\ LoopFree
    /\ streams' = [k \in 1..Len(streams) |->
                      IF streams[k].id = id THEN [streams[k] EXCEPT !.enabled = value]
                      ELSE streams[k]]
    /\ budget' = [budget EXCEPT !.requests = @ + 1]
    /\ scans' = [scans EXCEPT !.dirty = TRUE]
    /\ UNCHANGED <<second, fmt, walk, reply, now, files, recordings, running, loop_pc,
                   wake_at, last_cleanup, sweep, ready, execq, calls, jobs, swept>>

StartStream == \E id \in 1..(Len(streams) + 1) : SetEnabled(id, TRUE)

StopStream == \E id \in 1..(Len(streams) + 1) : SetEnabled(id, FALSE)

Advance(limit) ==
    \E d \in TickSteps :
        /\ budget.ticks < limit
        /\ loop_pc = "sleeping"
        /\ now < wake_at
        /\ now' = now + d
        /\ budget' = [budget EXCEPT !.ticks = @ + 1]
        /\ UNCHANGED <<second, fmt, streams, walk, reply, files, recordings, running, loop_pc, wake_at,
                       last_cleanup, sweep, ready, execq, calls, jobs, scans, swept>>

Tick == Advance(MaxTicks)

TickScan == Advance(MaxScanTicks)

WriteFile ==
    \E p \in DOMAIN files \cap Paths :
        /\ budget.writes < MaxWrites
        /\ ~files[p].exists
        /\ files' = [files EXCEPT ![p] = [exists |-> TRUE, mtime |-> now]]
        /\ budget' = [budget EXCEPT !.writes = @ + 1]
        /\ scans' = [scans EXCEPT !.dirty = TRUE]
        /\ UNCHANGED <<second, fmt, streams, walk, reply, now, recordings, running, loop_pc, wake_at, last_cleanup, sweep,
                       ready, execq, calls, jobs, swept>>

Next ==
    \/ Start
    \/ LoopTick
    \/ SweepStream
    \/ SweepDone
    \/ TaskStep
    \/ WorkerStart
    \/ WorkerFinish
    \/ Tick
    \/ WriteFile

Spec == Init /\ [][Next]_vars

InitApi ==
    /\ streams = Streams
    /\ walk = WalkOrder
    /\ reply = NoReply
    /\ now = T0
    /\ files = [p \in {"radio1/a", "radio1/b"} |->
                   [exists |-> TRUE, mtime |-> T0 - GRACE_SECONDS]]
    /\ recordings = <<>>
    /\ running = FALSE
    /\ loop_pc = "stopped"
    /\ wake_at = NoTime
    /\ last_cleanup = NoTime
    /\ sweep = [now |-> NoTime, todo |-> <<>>]
    /\ ready = <<>>
    /\ execq = <<>>
    /\ calls = {}
    /\ jobs = <<>>
    /\ scans = NoScans
    /\ swept = NoSweep
    /\ budget = [ticks |-> 0, writes |-> 0, requests |-> 0]
    /\ fmt = NoFormat
    /\ second = NoSecond

NextApi ==
    \/ Start
    \/ LoopTick
    \/ SweepStream
    \/ SweepDone
    \/ TaskStep
    \/ WorkerStart
    \/ WorkerFinish
    \/ ClassifyFileBegin
    \/ ClassifyFileEnd
    \/ TranscribeFileBegin
    \/ TranscribeFileEnd

SpecApi == InitApi /\ [][NextApi]_vars

NextScan ==
    \/ Start
    \/ LoopTick
    \/ SweepStream
    \/ SweepDone
    \/ TickScan
    \/ WriteFile

SpecScan == Init /\ [][NextScan]_vars

\* The watcher constructed and not started, nothing in the database.
Constructed ==
    /\ reply = NoReply
    /\ now = T0
    /\ recordings = <<>>
    /\ running = FALSE
    /\ loop_pc = "stopped"
    /\ wake_at = NoTime
    /\ last_cleanup = NoTime
    /\ sweep = [now |-> NoTime, todo |-> <<>>]
    /\ ready = <<>>
    /\ execq = <<>>
    /\ calls = {}
    /\ jobs = <<>>
    /\ scans = NoScans
    /\ swept = NoSweep
    /\ budget = [ticks |-> 0, writes |-> 0, requests |-> 0]
    /\ fmt = NoFormat
    /\ second = NoSecond

Finished(paths) == [p \in paths |-> [exists |-> TRUE, mtime |-> T0 - GRACE_SECONDS]]

\* Three streams, two of them with retention disabled, one old file each.
InitFleet ==
    /\ streams = Fleet
    /\ walk = WalkOrder
    /\ files = Finished({"radio1/a", "radio2/c", "radio3/d"})
    /\ Constructed

SpecFleet == InitFleet /\ [][NextScan]_vars

\* The loop with a database that may fail under the scanner and the sweeper.
NextFaults ==
    \/ Start
    \/ LoopTick
    \/ ScanFails
    \/ SweepStreamClean
    \/ SweepFails
    \/ SweepDone
    \/ TickScan
    \/ WriteFile

SpecFaults == Init /\ [][NextFaults]_vars

\* A database left by an earlier run of the service: more recordings of
\* stream 1 past their retention than one sweep takes.  Their start times are
\* distinct; the row ids follow them backwards (shuffle 1), forwards (508) or
\* in no order (7).
OldPath(i) == "radio1/old" \o ToString(i)

Shuffles == {1, 7, 508}

OldRows(shuffle) ==
    [i \in 1..(SWEEP_LIMIT + CapExtra) |->
        NewRecording(1, OldPath(i), T0 - 10 * SECONDS_PER_DAY - ((i * shuffle) % 509),
                     1000, 15)]

InitCap ==
    /\ streams = Streams
    /\ walk = WalkOrder
    /\ files = [p \in {OldPath(i) : i \in 1..(SWEEP_LIMIT + CapExtra)}
                        \cup {"radio1/a", "radio1/b"} |->
                   [exists |-> TRUE,
                    mtime |-> IF p = "radio1/b" THEN T0 - 5 ELSE T0 - GRACE_SECONDS]]
    /\ reply = NoReply
    /\ now = T0
    /\ recordings \in {OldRows(shuffle) : shuffle \in Shuffles}
    /\ running = FALSE
    /\ loop_pc = "stopped"
    /\ wake_at = NoTime
    /\ last_cleanup = NoTime
    /\ sweep = [now |-> NoTime, todo |-> <<>>]
    /\ ready = <<>>
    /\ execq = <<>>
    /\ calls = {}
    /\ jobs = [i \in 1..(SWEEP_LIMIT + CapExtra) |-> [NewJob EXCEPT !.submitted = 1]]
    /\ scans = NoScans
    /\ swept = NoSweep
    /\ budget = [ticks |-> 0, writes |-> 0, requests |-> 0]
    /\ fmt = NoFormat
    /\ second = NoSecond

NextCap ==
    \/ Start
    \/ LoopTick
    \/ SweepStreamClean
    \/ SweepDone
    \/ TickScan
    \/ WriteFile

SpecCap == InitCap /\ [][NextCap]_vars

\* os.walk lists the files of a directory in any order.
WalkOrders(dir, rest) ==
    LET n == Cardinality(dir)
    IN  {w \o rest : w \in {v \in [1..n -> dir] : \A i, j \in 1..n : i # j => v[i] # v[j]}}

\* Well-named and badly named files side by side, with a probe that fails in
\* each of its ways.
InitNames ==
    /\ streams = Fleet
    /\ walk \in WalkOrders({"radio1/a", "radio1/b", "radio1/segment", "radio1/take_one"},
                           <<"radio2/c", "radio3/d">>)
    /\ files = Finished({"radio1/a", "radio1/b", "radio1/segment", "radio1/take_one",
                         "radio2/c", "radio3/d"})
    /\ Constructed

SpecNames == InitNames /\ [][NextCap]_vars

\* A file on which the probe never returns, still being written at first.
InitHang ==
    /\ streams = Fleet
    /\ walk \in WalkOrders({"radio1/a", "radio1/b", "radio1/slow"}, <<"radio2/c">>)
    /\ files = [p \in {"radio1/a", "radio1/b", "radio1/slow", "radio2/c"} |->
                   [exists |-> TRUE,
                    mtime |-> IF p = "radio1/slow" THEN T0 - 5 ELSE T0 - GRACE_SECONDS]]
    /\ Constructed

SpecHang == InitHang /\ [][NextCap]_vars

\* Every stream keeps recordings for a while and has some that are past it;
\* the disk and the database may fail under the sweeper.
InitSweep ==
    /\ streams = Archive
    /\ walk = WalkOrder
    /\ files = Finished({"radio1/a", "radio1/e", "radio2/c", "radio3/d"})
    /\ Constructed

SpecSweep == InitSweep /\ [][NextScan]_vars

\* File names whose prefix holds an underscore, or that carry something
\* after the timestamp, or fewer than 14 digits, next to a plain one.
InitForms ==
    /\ streams = Streams
    /\ walk \in WalkOrders({"radio1/a", "radio1/my_show", "radio1/chunk_x", "radio1/short"},
                           <<>>)
    /\ files = Finished({"radio1/a", "radio1/my_show", "radio1/chunk_x", "radio1/short"})
    /\ Constructed

SpecForms == InitForms /\ [][NextCap]_vars

\* The loop under fair scheduling: the application starts the watcher, the
\* event loop runs the loop coroutine whenever its sleep is over, and time
\* passes.  One file is still being written at first.
InitLive ==
    /\ streams = Streams
    /\ walk \in WalkOrders({"radio1/a", "radio1/b", "radio1/my_show"}, <<>>)
    /\ files = [p \in {"radio1/a", "radio1/b", "radio1/my_show"} |->
                   [exists |-> TRUE,
                    mtime |-> IF p = "radio1/b" THEN T0 - 5 ELSE T0 - GRACE_SECONDS]]
    /\ Constructed

LoopFairness ==
    /\ WF_vars(Start)
    /\ WF_vars(LoopTick)
    /\ WF_vars(SweepStreamClean)
    /\ WF_vars(SweepDone)
    /\ WF_vars(TickScan)

SpecLive == InitLive /\ [][NextCap]_vars /\ LoopFairness

\* The watcher and its dispatcher under fair scheduling, with three files
\* found in the first pass: the event loop runs every task that is ready,
\* the pool's thread takes the next work item when it is free, and every
\* adapter call ends, by returning or by raising.
InitJobs ==
    /\ streams = Streams
    /\ walk = WalkOrder
    /\ files = Finished({"radio1/a", "radio1/b", "radio1/e"})
    /\ Constructed

NextJobs ==
    \/ Start
    \/ LoopTick
    \/ SweepStreamClean
    \/ SweepDone
    \/ TaskStep
    \/ WorkerStart
    \/ WorkerFinish
    \/ Tick

DispatcherFairness ==
    /\ WF_vars(TaskStep)
    /\ WF_vars(WorkerStart)
    /\ WF_vars(WorkerFinish)

SpecJobs == InitJobs /\ [][NextJobs]_vars /\ DispatcherFairness

\* _format_timestamp on its own: durations of up to MaxHours hours whose
\* seconds lie at and around the places where two decimals round, and both
\* ways a half can go.
SecondsMs ==
    {0, 4, 5, 6, 10, 994, 995, 996, 999, 1000, 9995, 30000, 59000, 59990, 59994, 59995,
     59996, 59999}

Durations ==
    {h * 3600000 + m * 60000 + s : h \in 0..MaxHours, m \in {0, 1, 59}, s \in SecondsMs}

InitFormat ==
    /\ streams = Streams
    /\ walk = WalkOrder
    /\ files = Finished({})
    /\ reply = NoReply
    /\ now = T0
    /\ recordings = <<>>
    /\ running = FALSE
    /\ loop_pc = "stopped"
    /\ wake_at = NoTime
    /\ last_cleanup = NoTime
    /\ sweep = [now |-> NoTime, todo |-> <<>>]
    /\ ready = <<>>
    /\ execq = <<>>
    /\ calls = {}
    /\ jobs = <<>>
    /\ scans = NoScans
    /\ swept = NoSweep
    /\ budget = [ticks |-> 0, writes |-> 0, requests |-> 0]
    /\ second = NoSecond
    /\ fmt \in {[ms |-> d, tie_up |-> t, text |-> <<>>] : d \in Durations, t \in BOOLEAN}

SpecFormat == InitFormat /\ [][Format]_vars

\* The 500 oldest files of the old database cannot be removed (os.remove
\* raises on each of them, on every pass); the newer ones can.
Locked == {OldPath(i) : i \in (CapExtra + 1)..(SWEEP_LIMIT + CapExtra)}

InitStarve ==
    /\ streams = Streams
    /\ walk = WalkOrder
    /\ \E new \in SUBSET {"radio1/a", "radio1/b", "radio1/e"} :
          files = [p \in {OldPath(i) : i \in 1..(SWEEP_LIMIT + CapExtra)}
                           \cup {"radio1/a", "radio1/b", "radio1/e"} |->
                      IF p \in {"radio1/a", "radio1/b", "radio1/e"} \ new THEN NoFile
                      ELSE [exists |-> TRUE,
                            mtime |-> IF p = "radio1/b" THEN T0 - 5 ELSE T0 - GRACE_SECONDS]]
    /\ reply = NoReply
    /\ now = T0
    /\ recordings = OldRows(1)
    /\ running = FALSE
    /\ loop_pc = "stopped"
    /\ wake_at = NoTime
    /\ last_cleanup = NoTime
    /\ sweep = [now |-> NoTime, todo |-> <<>>]
    /\ ready = <<>>
    /\ execq = <<>>
    /\ calls = {}
    /\ jobs = [i \in 1..(SWEEP_LIMIT + CapExtra) |-> [NewJob EXCEPT !.submitted = 1]]
    /\ scans = NoScans
    /\ swept = NoSweep
    /\ budget = [ticks |-> 0, writes |-> 0, requests |-> 0]
    /\ fmt = NoFormat
    /\ second = NoSecond

\* cleanup_old_recordings for the next stream when the unlink of a locked
\* file raises and everything else succeeds.
SweepLocked ==
    /\ loop_pc = "sweeping"
    /\ sweep.todo # <<>>
    /\ LET stream == Head(sweep.todo)
           days == ResolveRetentionDays(stream)
           cutoff == Cutoff(sweep.now, days)
       IN  \E cands \in {IF days = 0 THEN <<>>
                          ELSE OldRecordings(recordings, stream, cutoff)} :
           \E outcome \in {[i \in SeqToSet(cands) |->
                               IF recordings[i].path \in Locked THEN "unlink_fails"
                               ELSE "ok"]} :
              LET r == DeleteAll([recs |-> recordings, fs |-> files], cands, outcome)
              IN  /\ recordings' = r.recs
                  /\ files' = r.fs
                  /\ swept' = [stream |-> stream.id, cutoff |-> cutoff, cands |-> cands,
                               outcome |-> [i \in 1..Len(cands) |-> outcome[cands[i]]]]
    /\ sweep' = [sweep EXCEPT !.todo = Tail(@)]
    /\ scans' = [scans EXCEPT !.dirty = TRUE]
    /\ UNCHANGED <<second, fmt, streams, walk, reply, now, running, loop_pc, wake_at,
                   last_cleanup, ready, execq, calls, jobs, budget>>

NextStarve ==
    \/ Start
    \/ LoopTick
    \/ SweepLocked
    \/ SweepDone
    \/ TickScan
    \/ WriteFile

StarveFairness ==
    /\ WF_vars(Start)
    /\ WF_vars(LoopTick)
    /\ WF_vars(SweepLocked)
    /\ WF_vars(SweepDone)
    /\ WF_vars(TickScan)

SpecStarve == InitStarve /\ [][NextStarve]_vars /\ StarveFairness

\* A stream that is disabled and keeps its recordings for seven days, with
\* an old recording in the database and a newer file that has none; the
\* operator may start and stop streams.
Mixed == [Archive EXCEPT ![2].enabled = FALSE]

InitToggle ==
    /\ streams = Mixed
    /\ walk = WalkOrder
    /\ files = Finished({"radio1/a", "radio2/c", "radio2/f", "radio3/d"})
    /\ reply = NoReply
    /\ now = T0
    /\ recordings = <<NewRecording(2, "radio2/c", ParseStartTs(Catalogue["radio2/c"].tokens),
                                   Catalogue["radio2/c"].size, 0)>>
    /\ running = FALSE
    /\ loop_pc = "stopped"
    /\ wake_at = NoTime
    /\ last_cleanup = NoTime
    /\ sweep = [now |-> NoTime, todo |-> <<>>]
    /\ ready = <<>>
    /\ execq = <<>>
    /\ calls = {}
    /\ jobs = <<[NewJob EXCEPT !.submitted = 1]>>
    /\ scans = NoScans
    /\ swept = NoSweep
    /\ budget = [ticks |-> 0, writes |-> 0, requests |-> 0]
    /\ fmt = NoFormat
    /\ second = NoSecond

NextToggle ==
    \/ Start
    \/ LoopTick
    \/ SweepStreamClean
    \/ SweepDone
    \/ StartStream
    \/ StopStream
    \/ TickScan
    \/ WriteFile

SpecToggle == InitToggle /\ [][NextToggle]_vars

\* The watcher when the application may call start() a second time.
NextTwice ==
    \/ Start
    \/ StartAgain
    \/ LoopTick
    \/ SweepStreamClean
    \/ SweepDone
    \/ SecondTick
    \/ SecondSweep
    \/ SecondSweepDone
    \/ TickScan
    \/ WriteFile

SpecTwice == Init /\ [][NextTwice]_vars

(***************************************************************************)
(* Properties                                                              *)
(***************************************************************************)
ScanPass == scans'.count = scans.count + 1

SweepStep == loop_pc = "sweeping" /\ sweep.todo # <<>> /\ sweep'.todo = Tail(sweep.todo)

NewIds == (Len(recordings) + 1)..Len(recordings')

\* A job that may still invoke an adapter: its task has not started, it has
\* work in the executor queue, or its speech classification awaits the task.
PendingCall(id) ==
    \/ \E k \in 1..Len(execq) : execq[k].rec = id
    \/ \E k \in 1..Len(ready) :
          /\ ready[k].rec = id
          /\ \/ ready[k].ev = "start"
             \/ ready[k].ev = "classified" /\ ready[k].res = "speech"

\* C1: among the dispatcher's jobs no two adapter invocations (classify_audio
\* or transcribe) are ever in progress at the same time.
C1_DispatcherCallsNeverOverlap == Cardinality(WorkerCalls) <= 1

C1_Witness == WorkerCalls # {} /\ execq # <<>>

\* C2: system-wide at most one classification-or-transcription call is in
\* progress at any instant, the consumer handlers' calls included.
C2_AtMostOneAdapterCall == Cardinality(calls) <= 1

\* C3: dispatcher jobs are never interleaved: while an adapter call of job B
\* runs, no job submitted before B still has an adapter call to make.
C3_JobsNeverInterleave ==
    \A c \in WorkerCalls : \A id \in Ids : id < c.rec => ~PendingCall(id)

\* C4: every Recording row has exactly one dispatcher job submitted for it,
\* and the dispatcher invokes classify_audio at most once and transcribe at
\* most once for it, over any number of scan passes.
C4_AnalysedExactlyOnce ==
    /\ Len(jobs) = Len(recordings)
    /\ \A id \in Ids :
          /\ jobs[id].submitted = 1
          /\ jobs[id].cls_calls <= 1
          /\ jobs[id].asr_calls <= 1

C4_Witness ==
    /\ scans.count >= 2
    /\ \E id \in Ids :
          /\ jobs[id].done /\ jobs[id].cls_calls = 1 /\ jobs[id].asr_calls = 1
          /\ recordings[id].status # "deleted" /\ files[recordings[id].path].exists

\* C5 as stated: a scan pass that follows another over an unchanged file set,
\* with no sweep in between, creates no Recording row (and submits no job).
C5_SecondPassCreatesNothing ==
    [][ScanPass /\ scans.count >= 1 /\ ~scans.dirty
          => recordings' = recordings /\ ready' = ready]_vars

\* C5 amended: such a pass creates rows (and submits jobs) only for files that
\* the previous pass skipped because they were inside the grace window.
C5_SecondPassCreatesOnlyGraced ==
    [][ScanPass /\ scans.count >= 1 /\ ~scans.dirty
          => /\ \A i \in NewIds : recordings'[i].path \in scans.graced
             /\ Len(ready') - Len(ready) = Len(recordings') - Len(recordings)
             /\ \A i \in Ids : recordings'[i] = recordings[i]]_vars

C5_Witness ==
    /\ scans.repeat
    /\ \E id \in Ids : recordings[id].status # "deleted" /\ files[recordings[id].path].exists

\* C6: no two Recording rows whose status is not 'deleted' have the same path.
C6_LivePathsUnique ==
    \A i, j \in Ids :
        (i # j /\ recordings[i].status # "deleted" /\ recordings[j].status # "deleted")
            => recordings[i].path # recordings[j].path

C6_Witness ==
    \E i, j \in Ids :
        /\ i < j
        /\ recordings[i].path = recordings[j].path
        /\ recordings[i].status = "deleted"
        /\ recordings[j].status # "deleted"

\* C7: in every state of a Recording, asr_ts is set if and only if
\* transcript, asr_model and asr_confidence are all set.
C7_TranscriptAllOrNothing ==
    \A id \in Ids :
        LET r == recordings[id]
        IN  /\ (r.asr_ts # NoTime) <=>
                   (r.transcript # None /\ r.asr_model # None /\ r.asr_confidence # NoTime)
            /\ (r.asr_ts = NoTime) =>
                   (r.transcript = None /\ r.asr_model = None /\ r.asr_confidence = NoTime
                    /\ r.transcript_json = None)

C7_Witness ==
    /\ \E id \in Ids : recordings[id].asr_ts # NoTime
    /\ \E id \in Ids : recordings[id].classification = "speech" /\ recordings[id].asr_ts = NoTime

\* C8: a dispatcher job calls transcribe if and only if its classification
\* result is 'speech'; a job classified 'music' or 'ad' writes no transcript
\* field; a job classified 'speech' writes the transcript fields, all of them,
\* if and only if its transcription call succeeds.
C8_ConditionalTranscription ==
    \A id \in Ids :
        LET j == jobs[id]
            r == recordings[id]
        IN  /\ j.asr_calls > 0 => j.cls_res = "speech"
            /\ (j.done /\ j.cls_res = "speech") => j.asr_calls = 1
            /\ j.cls_res \in {"music", "ad"} => ~j.wrote
            /\ (j.done /\ j.cls_res = "speech") => (j.wrote <=> j.asr_res = "ok")
            /\ j.wrote => /\ r.transcript # None /\ r.transcript_json # None
                          /\ r.asr_model # None /\ r.asr_confidence # NoTime
                          /\ r.asr_ts # NoTime

C8_Witness ==
    /\ \E id \in Ids : jobs[id].done /\ jobs[id].cls_res = "speech" /\ jobs[id].wrote
    /\ \E id \in Ids : jobs[id].done /\ jobs[id].cls_res = "speech" /\ jobs[id].asr_res = "error"
    /\ \E id \in Ids : jobs[id].done /\ jobs[id].cls_res \in {"music", "ad"}

\* C9: a scan pass never inserts a Recording for a file whose last-modified
\* time is less than 10 seconds before the pass's current time.
C9_GraceWindow ==
    [][\A i \in NewIds : now - files[recordings'[i].path].mtime >= 10]_vars

C9_Witness == scans.graced # {} /\ scans.count >= 1 /\ recordings # <<>>

C11_DisabledRetentionNeverSwept ==
    \A id \in Ids :
        LET raw == StreamById(recordings[id].stream_id).retention_days
        IN  (raw.kind = "int" /\ raw.val <= 0) =>
                /\ recordings[id].status # "deleted"
                /\ files[recordings[id].path].exists

C11_Witness ==
    /\ last_cleanup = T0 + CLEANUP_INTERVAL
    /\ \E id \in Ids : recordings[id].stream_id = 1 /\ recordings[id].status = "deleted"
    /\ \A sid \in {2, 3} : \E id \in Ids :
          /\ recordings[id].stream_id = sid
          /\ recordings[id].start_ts < last_cleanup - 3 * SECONDS_PER_DAY

\* Rows of a stream that a sweep of that stream would select if there were no
\* cap, and the rows a step marks deleted.
Eligible(sid, cutoff) ==
    {i \in Ids : /\ recordings[i].stream_id = sid
                 /\ recordings[i].status # "deleted"
                 /\ recordings[i].start_ts < cutoff}

MarkedDeleted ==
    {i \in Ids : recordings[i].status # "deleted" /\ recordings'[i].status = "deleted"}

\* C12: one sweep of a stream marks at most 500 recordings deleted; when more
\* than 500 are eligible and nothing fails it marks exactly the 500 with the
\* oldest start_ts and leaves the others non-deleted.
C12_SweepCap ==
    [][SweepStep =>
        LET st == Head(sweep.todo)
            d == ResolveRetentionDays(st)
            eligible == Eligible(st.id, sweep.now - d * SECONDS_PER_DAY)
        IN  /\ Cardinality(MarkedDeleted) <= 500
            /\ (d > 0 /\ Cardinality(eligible) > 500) =>
                  /\ Cardinality(MarkedDeleted) = 500
                  /\ MarkedDeleted \subseteq eligible
                  /\ \A i \in MarkedDeleted : \A j \in eligible \ MarkedDeleted :
                        /\ recordings[i].start_ts <= recordings[j].start_ts
                        /\ recordings'[j] = recordings[j]
                        /\ files'[recordings[j].path].exists]_vars

C12_Witness ==
    /\ Len(swept.cands) = 500
    /\ Cardinality({i \in Ids : recordings[i].status = "deleted"}) = 500
    /\ \E i \in Ids : /\ recordings[i].status # "deleted"
                      /\ recordings[i].start_ts < swept.cutoff
                      /\ recordings[i].stream_id = swept.stream

\* C13: a row whose status is 'deleted' keeps that status in every step of the
\* scanner, the dispatcher and the sweeper, and no step sets a status other
\* than 'completed' or 'deleted'.
C13_StatusOnlyForward ==
    [][/\ \A i \in Ids : recordings[i].status = "deleted" => recordings'[i].status = "deleted"
       /\ \A i \in 1..Len(recordings') : recordings'[i].status \in {"completed", "deleted"}]_vars

\* A transcript committed by the dispatcher after the sweep that deleted the row.
C13_Witness ==
    \E id \in Ids :
        /\ recordings[id].status = "deleted"
        /\ recordings[id].classification = "speech"
        /\ jobs[id].wrote
        /\ last_cleanup # NoTime
        /\ now - last_cleanup < CLEANUP_INTERVAL
        /\ recordings[id].asr_ts > last_cleanup

\* C14: every recording selected by a sweep is marked deleted by it whatever
\* the unlink did (file removed, file already missing, unlink raising), as
\* long as the commit itself succeeds.
C14_SelectedRowsEndDeleted ==
    [][SweepStep =>
         \A k \in 1..Len(swept'.cands) :
             swept'.outcome[k] # "commit_fails" =>
                 recordings'[swept'.cands[k]].status = "deleted"]_vars

\* The files that a scan pass at the current time finds finished, under an
\* enabled stream's directory, with an accepted extension.
FinishedFiles ==
    {p \in DOMAIN files \cap Paths :
        /\ files[p].exists
        /\ now - files[p].mtime >= 10
        /\ Catalogue[p].ext \in {".wav", ".mp3"}
        /\ \E k \in 1..Len(streams) : streams[k].enabled /\ streams[k].name = Catalogue[p].dir}

HasLiveRow(recs, p) == \E i \in 1..Len(recs) : recs[i].path = p /\ recs[i].status # "deleted"

\* C15: a file whose name carries no parsable timestamp never gets a Recording
\* row, and it does not abort the pass: every other finished file has a live
\* row when the pass ends, whatever the walk order.
C15_MalformedNameSkipped ==
    [][ScanPass =>
         /\ \A i \in 1..Len(recordings') :
               recordings'[i].path \notin {"radio1/segment", "radio1/take_one"}
         /\ \A p \in FinishedFiles \ {"radio1/segment", "radio1/take_one"} :
               HasLiveRow(recordings', p)]_vars

C15_Witness ==
    /\ scans.count = 1
    /\ walk[1] = "radio1/segment"
    /\ walk[3] = "radio1/take_one"
    /\ Len(recordings) = 4
    /\ files["radio1/segment"].exists /\ files["radio1/take_one"].exists

\* A step that ends a tick of the loop: a scan pass that raised or was not
\* followed by a sweep, or a sweep that completed or raised.
LastTick(sc) == sc.ticks[Len(sc.ticks)]

TickEnds ==
    \/ /\ Len(scans'.ticks) = Len(scans.ticks) + 1
       /\ LastTick(scans').sweep = "none"
    \/ /\ Len(scans'.ticks) = Len(scans.ticks)
       /\ scans.ticks # <<>>
       /\ LastTick(scans).sweep = "running"
       /\ LastTick(scans').sweep # "running"

\* C16: once started the loop is never fatal: no step takes it back to
\* stopped or ends it, and every tick, whether its scanner or sweeper pass
\* raised or not, ends with the loop asleep for one interval and still running.
C16_LoopNeverFatal ==
    [][/\ loop_pc # "stopped" => (loop_pc' \notin {"stopped", "dead"} /\ running')
       /\ TickEnds => /\ loop_pc' = "sleeping"
                      /\ wake_at' = now' + SCAN_INTERVAL
                      /\ running']_vars

C16_Witness ==
    /\ \E i, j \in 1..Len(scans.ticks) : i < j /\ scans.ticks[i].scan = "raised"
    /\ \E i, j \in 1..Len(scans.ticks) : i < j /\ scans.ticks[i].sweep = "raised"
    /\ loop_pc = "sleeping"

SweepStarts == {k \in 1..Len(scans.ticks) : scans.ticks[k].sweep # "none"}

C18_CachedRequestAnswered ==
    (reply.fn = "transcribe" /\ reply.cached) =>
        /\ reply.status = "cached"
        /\ \A c \in HandlerCalls : c.rec # reply.rec

\* C19: get_duration returns 0 for every failing outcome of the external tool
\* (non-zero exit code, tool missing, unparsable output), and the scanner
\* inserts the Recording of such a file with duration_seconds = 0 instead of
\* skipping it.
C19_ProbeNeverRaises ==
    /\ \A p \in {"radio1/b", "radio2/c", "radio3/d"} : GetDuration(p) = 0
    /\ \A id \in Ids : recordings[id].duration_seconds >= 0
    /\ scans.count >= 1 =>
          /\ \A p \in {"radio1/b", "radio2/c", "radio3/d"} :
                \E id \in Ids : recordings[id].path = p /\ recordings[id].duration_seconds = 0
          /\ \A id \in Ids :
                recordings[id].path = "radio1/a" => recordings[id].duration_seconds = 15

C19_Witness ==
    /\ scans.count >= 2
    /\ Catalogue["radio1/b"].probe.returncode # 0
    /\ Catalogue["radio2/c"].probe.raises
    /\ Catalogue["radio3/d"].probe.returncode = 0 /\ ~Catalogue["radio3/d"].probe.numeric
    /\ \A p \in {"radio1/a", "radio1/b", "radio2/c", "radio3/d"} :
          \E id \in Ids : recordings[id].path = p

\* C20: a file on which the duration probe never returns does not keep the
\* scan pass from ending, and every other finished file of the pass still has
\* its Recording when the pass ends.
C20_SlowFileNeverBlocks ==
    [][ScanPass =>
         /\ loop_pc' # "hung"
         /\ \A p \in FinishedFiles \ {"radio1/slow"} : HasLiveRow(recordings', p)]_vars

(***************************************************************************)
(* Dispatcher: what a job leaves behind                                    *)
(***************************************************************************)
TranscriptNull(rec) ==
    /\ rec.transcript = None
    /\ rec.transcript_json = None
    /\ rec.asr_model = None
    /\ rec.asr_confidence = NoTime
    /\ rec.asr_ts = NoTime

TranscribeRequested(id) ==
    \/ jobs[id].asr_calls > 0
    \/ \E k \in 1..Len(execq) : execq[k].fn = "transcribe" /\ execq[k].rec = id

\* C21: the classification is stored on the row before the transcription of
\* that job is requested, it is still stored when the job has ended, and a
\* job whose transcribe raised leaves classification = "speech" with every
\* transcript field null.
C21_ClassificationCommittedFirst ==
    \A id \in Ids :
        /\ TranscribeRequested(id) => recordings[id].classification = "speech"
        /\ jobs[id].done /\ jobs[id].cls_res \in Classes
              => recordings[id].classification = jobs[id].cls_res
        /\ jobs[id].asr_res = "error"
              => /\ recordings[id].classification = "speech"
                 /\ TranscriptNull(recordings[id])

C21_Witness ==
    \E id \in Ids :
        /\ jobs[id].done
        /\ jobs[id].asr_res = "error"
        /\ recordings[id].classification = "speech"
        /\ TranscriptNull(recordings[id])

\* The row as the scanner inserted it, whatever the sweeper did to its status.
AsInserted(rec) ==
    [rec EXCEPT !.status = "completed"]
        = NewRecording(rec.stream_id, rec.path, rec.start_ts, rec.size_bytes,
                       rec.duration_seconds)

\* C22: a job whose classify_audio raised leaves the classification null and
\* every other field of the row as inserted, never requests a transcription,
\* ends (the exception stays inside the job) and is submitted once only,
\* however many ticks follow.
C22_ClassifyFailureLeavesRow ==
    \A id \in Ids :
        jobs[id].cls_res = "error"
            => /\ recordings[id].classification = None
               /\ AsInserted(recordings[id])
               /\ ~TranscribeRequested(id)
               /\ jobs[id].asr_res = None
               /\ jobs[id].submitted = 1
               /\ jobs[id].cls_calls = 1
               /\ loop_pc # "dead"
               /\ (\A k \in 1..Len(ready) : ready[k].rec # id) => jobs[id].done

C22_Witness ==
    \E id \in Ids :
        /\ jobs[id].cls_res = "error"
        /\ jobs[id].done
        /\ files[recordings[id].path].exists
        /\ recordings[id].status = "completed"
        /\ scans.count >= 2
        /\ LastTick(scans).at > T0
        /\ loop_pc = "sleeping"

\* C23: in the sweep of a stream a candidate whose unlink or commit fails
\* keeps its row as it was, every other candidate of that sweep, before it
\* and after it, is marked deleted with its file removed, rows deleted
\* earlier stay deleted, no eligible row is left out, and the pass goes on
\* to the streams that remain.
C23_SweepFailuresIsolated ==
    [][SweepStep =>
        LET cands == swept'.cands
            out == swept'.outcome
        IN  /\ ResolveRetentionDays(Head(sweep.todo)) > 0
                  => SeqToSet(cands) = Eligible(Head(sweep.todo).id, swept'.cutoff)
            /\ \A k \in 1..Len(cands) :
                  IF out[k] = "ok"
                  THEN /\ recordings'[cands[k]].status = "deleted"
                       /\ ~files'[recordings[cands[k]].path].exists
                  ELSE recordings'[cands[k]] = recordings[cands[k]]
            /\ \A i \in Ids :
                  recordings[i].status = "deleted" => recordings'[i] = recordings[i]
            /\ loop_pc' = "sweeping"
            /\ sweep'.todo = Tail(sweep.todo)]_vars

\* The sweep of the last stream has deleted its candidate after the sweep of
\* the first stream failed on its oldest candidate and deleted the next one.
C23_Witness ==
    /\ swept.stream = 3
    /\ swept.cands # <<>>
    /\ \A k \in 1..Len(swept.cands) :
          swept.outcome[k] = "ok" /\ recordings[swept.cands[k]].status = "deleted"
    /\ \E i, j \in Ids :
          /\ recordings[i].path = "radio1/e"
          /\ recordings[i].status = "completed"
          /\ recordings[j].path = "radio1/a"
          /\ recordings[j].status = "deleted"
          /\ recordings[i].start_ts < recordings[j].start_ts

\* The loop's sleep is over.
TickDue == running /\ loop_pc = "sleeping" /\ now >= wake_at

\* C24: the watcher loop never waits for the dispatcher: a tick that is due
\* can run whatever the worker is doing and however many jobs are queued, and
\* a scan pass ends in the same step, leaving the calls in progress and the
\* executor queue as they were and the jobs it created not yet called.
C24_LoopNeverWaitsForWorker ==
    /\ [](TickDue => ENABLED LoopTick)
    /\ [][ScanPass =>
            /\ calls' = calls
            /\ execq' = execq
            /\ loop_pc' \in {"sleeping", "sweeping"}
            /\ \A id \in NewIds : jobs'[id].cls_calls = 0 /\ ~jobs'[id].done]_vars

\* A pass that ran after the worker had entered a call that is still in
\* progress has inserted a row.
C24_Witness ==
    \E c \in WorkerCalls :
        /\ c.since = T0
        /\ LastTick(scans).at > T0
        /\ LastTick(scans).scan = "ok"
        /\ \E id \in Ids : recordings[id].path = "radio1/b"

\* C25: a file whose name failed to parse in one scan pass is not probed (nor
\* stat'ed and parsed, which come with the probe) by the next pass while it
\* is unchanged.
C25_MalformedNeverRetried ==
    [][ScanPass =>
         \A p \in scans.unparsed : files'[p] = files[p] => p \notin scans'.probed]_vars

\* The layout <prefix>_<YYYYMMDDHHMMSS>: the part after the last "_" is a
\* valid 14-digit timestamp and a prefix comes before it.
WellFormed(tokens) == Len(tokens) >= 2 /\ tokens[Len(tokens)].kind = "stamp"

\* C26: after a scan pass every finished file named <prefix>_<14 digits>.<ext>,
\* whatever its prefix, has a Recording whose start_ts is the instant its
\* digits denote, and no Recording belongs to a file named otherwise.
C26_EveryPrefixParses ==
    [][ScanPass =>
         /\ \A p \in FinishedFiles :
               WellFormed(Catalogue[p].tokens) =>
                   \E i \in 1..Len(recordings') :
                       /\ recordings'[i].path = p
                       /\ recordings'[i].start_ts
                             = Catalogue[p].tokens[Len(Catalogue[p].tokens)].val
         /\ \A i \in 1..Len(recordings') :
               WellFormed(Catalogue[recordings'[i].path].tokens)]_vars

\* C27: a row the scanner inserts has status "completed", no classification,
\* no transcript field, the size of its file and the duration the probe
\* printed (0 when the probe gave none).
C27_InsertedRowFields ==
    [][ScanPass =>
         \A i \in NewIds :
            LET rec == recordings'[i]
                file == Catalogue[rec.path]
            IN  /\ rec.status = "completed"
                /\ rec.classification = None
                /\ TranscriptNull(rec)
                /\ rec.size_bytes = file.size
                /\ rec.duration_seconds
                      = IF /\ ~file.probe.raises
                           /\ file.probe.returncode = 0
                           /\ file.probe.numeric
                        THEN file.probe.val ELSE 0]_vars

C27_Witness ==
    \E id \in Ids :
        /\ recordings[id].path = "radio1/a"
        /\ recordings[id].status = "completed"
        /\ recordings[id].duration_seconds = 15
        /\ recordings[id].size_bytes = 1000
        /\ recordings[id].classification = None
        /\ jobs[id] = [NewJob EXCEPT !.submitted = 1]

JobFinished(id) ==
    /\ id \in Ids
    /\ jobs[id].done
    /\ \/ jobs[id].cls_res \in Classes /\ recordings[id].classification = jobs[id].cls_res
       \/ jobs[id].cls_res = "error" /\ recordings[id].classification = None

\* C29: when every adapter call ends, every submitted job eventually
\* finishes, with its classification stored or its failure logged, whatever
\* was queued ahead of it.
C29_EveryJobFinishes ==
    \A id \in 1..Cardinality(Paths) :
        (id \in Ids /\ jobs[id].submitted >= 1) ~> JobFinished(id)

\* The third job of a pass has finished behind the two queued ahead of it.
C29_Witness ==
    /\ Len(recordings) >= 3
    /\ jobs[1].submitted = 1 /\ jobs[2].submitted = 1
    /\ JobFinished(3)
    /\ recordings[3].classification \in Classes

\* The positions of the colons in a timestamp.
Colons(text) == {i \in 1..Len(text) : text[i] = ":"}

RECURSIVE Value(_)
Value(digits) ==
    IF digits = <<>> THEN 0
    ELSE 10 * Value(SubSeq(digits, 1, Len(digits) - 1))
           + (CHOOSE n \in 0..9 : Digit(n) = digits[Len(digits)])

IsNumber(s) == s # <<>> /\ \A i \in 1..Len(s) : \E n \in 0..9 : Digit(n) = s[i]

\* C30: the text _format_timestamp returns has the shape HH:MM:SS.cc, with
\* a two-digit minutes field in 00..59 and a seconds field of two digits, a
\* point and two digits in 00.00..59.99.
C30_TimestampWellFormed ==
    fmt.text # <<>> =>
        /\ Cardinality(Colons(fmt.text)) = 2
        /\ LET c1 == CHOOSE i \in Colons(fmt.text) : \A j \in Colons(fmt.text) : i <= j
               c2 == CHOOSE i \in Colons(fmt.text) : \A j \in Colons(fmt.text) : j <= i
               minutes == SubSeq(fmt.text, c1 + 1, c2 - 1)
               seconds == SubSeq(fmt.text, c2 + 1, Len(fmt.text))
           IN  /\ Len(minutes) = 2 /\ IsNumber(minutes) /\ Value(minutes) <= 59
               /\ Len(seconds) = 5
               /\ seconds[3] = "."
               /\ IsNumber(SubSeq(seconds, 1, 2)) /\ IsNumber(SubSeq(seconds, 4, 5))
               /\ Value(SubSeq(seconds, 1, 2)) <= 59

\* C31: a sweeper pass runs only while the loop awaits it, after the scan
\* pass of the same tick has returned, and a scan pass starts only when no
\* sweeper pass is running.
C31_ScanAndSweepNeverOverlap ==
    /\ [](sweep.now # NoTime =>
             /\ loop_pc = "sweeping"
             /\ scans.ticks # <<>>
             /\ LastTick(scans).at = sweep.now
             /\ LastTick(scans).scan = "ok")
    /\ [][ScanPass => sweep.now = NoTime /\ loop_pc = "sleeping"]_vars
    /\ [][SweepStep => scans'.count = scans.count /\ LastTick(scans).sweep = "running"]_vars

\* A scan pass has run after the sweeper pass of an earlier tick finished.
C31_Witness ==
    /\ Len(scans.ticks) >= 2
    /\ scans.ticks[1].sweep = "completed"
    /\ LastTick(scans).scan = "ok"
    /\ \E id \in Ids : recordings[id].status = "deleted"

\* Two sweeper passes are running, each in the thread of its own loop.
TwoSweeps == sweep.now # NoTime /\ second.sweep.now # NoTime

\* C32: a watcher has at most one loop task, whatever start() is called on,
\* so that two sweeper passes never run at the same time.
C32_AtMostOneLoop ==
    /\ second.pc = "none"
    /\ ~TwoSweeps

\* C33: no step writes the classification or a transcript field of a row
\* that the sweeper has marked deleted.
C33_DeletedRowNeverWritten ==
    [][\A i \in Ids :
          recordings[i].status = "deleted" =>
              /\ recordings'[i].classification = recordings[i].classification
              /\ recordings'[i].transcript = recordings[i].transcript
              /\ recordings'[i].transcript_json = recordings[i].transcript_json
              /\ recordings'[i].asr_model = recordings[i].asr_model
              /\ recordings'[i].asr_confidence = recordings[i].asr_confidence
              /\ recordings'[i].asr_ts = recordings[i].asr_ts]_vars

C35_EnabledGatesScanOnly ==
    /\ [][ScanPass =>
            \A i \in NewIds : StreamById(recordings'[i].stream_id).enabled]_vars
    /\ [][SweepStep =>
            LET st == Head(sweep.todo)
                days == ResolveRetentionDays(st)
            IN  days > 0 =>
                   \A i \in Eligible(st.id, Cutoff(sweep.now, days)) :
                       /\ recordings'[i].status = "deleted"
                       /\ ~files'[recordings[i].path].exists]_vars

\* A stream disabled all along: its expired recording has been deleted and
\* its finished file without a row has got none in the pass.
C35_Witness ==
    /\ budget.requests = 0
    /\ ~StreamById(2).enabled
    /\ scans.count >= 1
    /\ recordings[1].stream_id = 2 /\ recordings[1].status = "deleted"
    /\ ~files["radio2/c"].exists
    /\ files["radio2/f"].exists /\ now - files["radio2/f"].mtime >= GRACE_SECONDS
    /\ \A i \in Ids : recordings[i].path # "radio2/f"

====
